---- MODULE Spec2Model ----
(***************************************************************************)
(* The playback coordinator of the museum timeline (App.js), its idle      *)
(* timer (hooks/useInactivity.js) and its autoplay ticker                  *)
(* (hooks/useAutoplay.js), as a state machine.                             *)
(*                                                                         *)
(* React state is modelled as the committed values (what the closures of   *)
(* the last render see) plus the queue of state updates that were          *)
(* requested but not rendered yet.  A handler run by a user event is       *)
(* rendered, and its effects are run, within the event; the updates of a   *)
(* timer callback or of the fetch promise wait for a later render          *)
(* (Render), whose passive effects run later still (FlushEffects).         *)
(* Time is counted in milliseconds and passes in steps of Quantum.         *)
(***************************************************************************)
EXTENDS Integers, Sequences, FiniteSets, TLC

\* App.js constants
AUTOPLAY_INTERVAL == 4500
INACTIVITY_TIMEOUT == 14000

\* bounds of the model: the longest fetched payload
MaxEvents == 3
\* the years a fetched record may carry
Years == {1900, 1950}

RECURSIVE GCD(_, _)
GCD(a, b) == IF b = 0 THEN a ELSE GCD(b, a % b)
\* the step of the clock: both periods are multiples of it
Quantum == GCD(INACTIVITY_TIMEOUT, AUTOPLAY_INTERVAL)
\* the history clock stops counting here
ClockCap == 2 * INACTIVITY_TIMEOUT + Quantum

\* null (modalEvent closed) and undefined (events[i] out of range)
Null == [id |-> 0, year |-> 0]
Undefined == [id |-> -1, year |-> 0]

\* the payloads /data/timeline.json may hold: records with unique ids
Payloads ==
  UNION { { [i \in 1..n |-> [id |-> i, year |-> y[i]]] : y \in [1..n -> Years] }
          : n \in 0..MaxEvents }

\* the payloads the playback model starts from: one per length, years out of
\* order and tied, so that sorting moves records
SamplePayloads ==
  { p \in Payloads :
      \A i \in 1..Len(p) : (p[i].year = 1950) <=> (i % 2 = 1) }

\* an insertion that puts a record before the records of the same year
RECURSIVE InsertSorted_Unstable(_, _)
InsertSorted_Unstable(s, e) ==
  IF s = <<>> THEN <<e>>
  ELSE IF s[Len(s)].year - e.year >= 0
       THEN Append(InsertSorted_Unstable(SubSeq(s, 1, Len(s) - 1), e), s[Len(s)])
       ELSE Append(s, e)

\* [...data].sort((a, b) => a.year - b.year): a stable ascending sort
RECURSIVE InsertSorted(_, _)
InsertSorted(s, e) ==
  IF s = <<>> THEN <<e>>
  ELSE IF s[Len(s)].year - e.year > 0
       THEN Append(InsertSorted(SubSeq(s, 1, Len(s) - 1), e), s[Len(s)])
       ELSE Append(s, e)

RECURSIVE SortByYear(_)
SortByYear(d) ==
  IF d = <<>> THEN <<>>
  ELSE InsertSorted(SortByYear(SubSeq(d, 1, Len(d) - 1)), d[Len(d)])

\* events[i] of JavaScript: 0-based, undefined out of range
At(evs, i) == IF i >= 0 /\ i < Len(evs) THEN evs[i + 1] ELSE Undefined

----
\* components/Timeline.js: the ruler.  events[0]?.year || 1880 and
\* events[events.length - 1]?.year || 2000
minYear(evs) ==
  IF At(evs, 0) = Undefined \/ At(evs, 0).year = 0 THEN 1880 ELSE At(evs, 0).year

maxYear(evs) ==
  IF At(evs, Len(evs) - 1) = Undefined \/ At(evs, Len(evs) - 1).year = 0
  THEN 2000 ELSE At(evs, Len(evs) - 1).year

yearSpan(evs) == maxYear(evs) - minYear(evs)

\* n / d of JavaScript numbers, kept as a fraction: 0 / 0 is NaN and n / 0 is
\* an infinity
Quotient(n, d) ==
  IF d # 0 THEN [kind |-> "number", num |-> n, den |-> d]
  ELSE IF n = 0 THEN [kind |-> "NaN", num |-> 0, den |-> 0]
  ELSE IF n > 0 THEN [kind |-> "Infinity", num |-> n, den |-> 0]
  ELSE [kind |-> "-Infinity", num |-> n, den |-> 0]

\* `${((year - minYear) / yearSpan) * 100}%`
yearToPercent(year, evs) ==
  LET q == Quotient(year - minYear(evs), yearSpan(evs))
  IN [q EXCEPT !.num = @ * 100]

----
\* utils/sportConfig.js.  A visual is [kind, color, icon]; the icon is written
\* by the name of its emoji.  kind tells the entries of the tables ("entry")
\* from a value inherited from Object.prototype ("inherited"), which has no
\* color and no icon, and from undefined.
SportTable ==
  { <<"Baseball", "#e8534e", "baseball">>,
    <<"Football", "#e07b39", "football">>,
    <<"Track & Field", "#f0c040", "runner">>,
    <<"Basketball", "#e07b39", "basketball">>,
    <<"Wrestling", "#7c9cbf", "wrestlers">>,
    <<"Soccer", "#5baa68", "soccer">>,
    <<"Tennis", "#b8e04a", "tennis">>,
    <<"Lacrosse", "#5baa68", "lacrosse">>,
    <<"Boxing", "#c0524a", "boxing glove">>,
    <<"Golf", "#5baa68", "flag in hole">>,
    <<"Rifle", "#a0a0a0", "bullseye">>,
    <<"Fencing", "#c0a0e0", "fencer">>,
    <<"Gymnastics", "#e080b0", "cartwheel">>,
    <<"Cross-Country", "#f0c040", "mountain">>,
    <<"Swim & Diving", "#4ab0e0", "swimmer">>,
    <<"Swim//Diving", "#4ab0e0", "swimmer">>,
    <<"Softball", "#e8534e", "softball">>,
    <<"Hockey", "#7cb8e0", "field hockey">>,
    <<"Volleyball", "#e07b39", "volleyball">>,
    <<"Women's Basketball", "#e080b0", "basketball">>,
    <<"Womens Basketball", "#e080b0", "basketball">> }

ConfiguredSports == {r[1] : r \in SportTable}

SPORT_CONFIG ==
  [k \in ConfiguredSports |->
     LET r == CHOOSE r \in SportTable : r[1] = k
     IN [kind |-> "entry", color |-> r[2], icon |-> r[3]]]

DEFAULT_SPORT_CONFIG == [kind |-> "entry", color |-> "#C0974F", icon |-> "trophy"]

\* the property names every object literal inherits from Object.prototype
ObjectPrototype ==
  {"constructor", "toString", "toLocaleString", "valueOf", "hasOwnProperty",
   "isPrototypeOf", "propertyIsEnumerable", "__proto__"}

\* keys the event data can carry: the configured ones, unconfigured sports, a
\* configured sport in another case, the key of a missing field
\* ("undefined"), and inherited property names
SportKeys ==
  ConfiguredSports \cup ObjectPrototype
    \cup {"Swimming", "Rugby", "football", "FOOTBALL", "Track and Field", "undefined", "null"}

NoVisual == [kind |-> "undefined", color |-> "undefined", icon |-> "undefined"]

\* SPORT_CONFIG[sport]: an own property, else an inherited one, else undefined
SportProperty(key) ==
  IF key \in DOMAIN SPORT_CONFIG THEN SPORT_CONFIG[key]
  ELSE IF key \in ObjectPrototype
       THEN [kind |-> "inherited", color |-> "undefined", icon |-> "undefined"]
       ELSE NoVisual

\* a lookup through own properties only
getSportConfig_OwnProperty(key) ==
  IF key \in DOMAIN SPORT_CONFIG THEN SPORT_CONFIG[key] ELSE DEFAULT_SPORT_CONFIG

\* SPORT_CONFIG[sport] || DEFAULT_SPORT_CONFIG: every object is truthy
getSportConfig(key) ==
  IF SportProperty(key).kind # "undefined" THEN SportProperty(key)
  ELSE DEFAULT_SPORT_CONFIG

VARIABLES
  data,         \* the payload the server holds
  fetchState,   \* "pending", "resolved", "rejected"
  events, activeIndex, isLooping, modalEvent, isLoading,  \* committed React state
  pending,      \* state updates requested and not rendered yet
  eff,          \* the dependency values the passive effects last ran with
  intervalRef,  \* intervalRef.current: "null", "live" or "stale" (a cleared id)
  intervals,    \* live setInterval schedules: [rem, len, ref]
  timerRef,     \* timerRef.current: "null", "live" or "stale" (a fired or cleared id)
  timeouts,     \* pending setTimeout countdowns: [rem, ref]
  pressed,      \* the element a pointer press is held on
  sinceInput,   \* history: time since mount or the last qualifying input (capped)
  idleCount,    \* history: onIdle calls since mount or the last qualifying input (capped at 2)
  called,       \* history: the operation the last step invoked ("none" if it invoked none)
  lastKey,      \* history: the key the last step pressed ("none" if it pressed none)
  timeout,      \* the timeout argument useInactivity was called with
  mounted,      \* whether the effects of App are set up (FALSE between cleanup and setup)
  listening,    \* whether the activity listeners of useInactivity are on the window
  refetch,      \* the request of a second run of the data loading effect: "none",
                \* "pending", "resolved", "rejected"
  sinceEnable,  \* history: time since the live schedule of the ticker was started
                \* (capped at one period; at the cap while there is none)
  sport,        \* the sport key getSportConfig was last called with ("" before any call)
  visual        \* what that call returned

react == <<events, activeIndex, isLooping, modalEvent, isLoading>>
vars == <<data, fetchState, events, activeIndex, isLooping, modalEvent, isLoading,
          pending, eff, intervalRef, intervals, timerRef, timeouts, pressed,
          sinceInput, idleCount, called, lastKey, timeout, mounted, listening,
          refetch, sinceEnable, sport, visual>>
\* what only changes when hooks are set up or torn down
hooks == <<timeout, mounted, listening, refetch>>
\* what only a call of getSportConfig changes
view == <<sport, visual>>

----
\* State updates: the argument of one setState call.
Upd(k, b, n, e, s) == [k |-> k, b |-> b, n |-> n, e |-> e, s |-> s]
SetEvents(s) == Upd("events", FALSE, 0, Null, s)
SetIsLoading(b) == Upd("isLoading", b, 0, Null, <<>>)
SetIsLooping(b) == Upd("isLooping", b, 0, Null, <<>>)
SetModalEvent(e) == Upd("modalEvent", FALSE, 0, e, <<>>)
SetActiveIndex(n) == Upd("activeIndex", FALSE, n, Null, <<>>)
\* setActiveIndex(prev => ...) with the events.length the callback closed over
SetActiveIndexNext(len) == Upd("next", FALSE, len, Null, <<>>)
SetActiveIndexPrev(len) == Upd("prev", FALSE, len, Null, <<>>)

Cur == [events |-> events, activeIndex |-> activeIndex, isLooping |-> isLooping,
        modalEvent |-> modalEvent, isLoading |-> isLoading]

ApplyUpdate(st, u) ==
  CASE u.k = "events" -> [st EXCEPT !.events = u.s]
    [] u.k = "isLoading" -> [st EXCEPT !.isLoading = u.b]
    [] u.k = "isLooping" -> [st EXCEPT !.isLooping = u.b]
    [] u.k = "modalEvent" -> [st EXCEPT !.modalEvent = u.e]
    [] u.k = "activeIndex" -> [st EXCEPT !.activeIndex = u.n]
    [] u.k = "next" ->
         [st EXCEPT !.activeIndex = IF @ >= u.n - 1 THEN 0 ELSE @ + 1]
    [] u.k = "prev" ->
         [st EXCEPT !.activeIndex = IF @ <= 0 THEN u.n - 1 ELSE @ - 1]

RECURSIVE ApplyAll(_, _)
ApplyAll(st, q) ==
  IF q = <<>> THEN st ELSE ApplyAll(ApplyUpdate(st, Head(q)), Tail(q))

----
\* The handlers of App.js, as the updates they request.
\* a tick that also leaves Loop mode
advanceToNext_LeavesLoop(len) == << SetIsLooping(FALSE), SetActiveIndexNext(len) >>

advanceToNext(len) == << SetActiveIndexNext(len) >>

\* handleIdle that also goes back to the first event
handleIdle_ResetsIndex == << SetModalEvent(Null), SetIsLooping(TRUE), SetActiveIndex(0) >>

\* handleIdle without its setIsLooping(true)
handleIdle_KeepsMode == << SetModalEvent(Null) >>

\* handleIdle without its setModalEvent(null)
handleIdle_KeepsOverlay == << SetIsLooping(TRUE) >>

handleIdle == << SetModalEvent(Null), SetIsLooping(TRUE) >>

\* handleSelectEvent without its setModalEvent(null)
handleSelectEvent_KeepsOverlay(index) ==
  << SetIsLooping(FALSE), SetActiveIndex(index) >>

\* an onActive that leaves Loop mode on any activity
handleActive_LeavesLoop == << SetIsLooping(FALSE) >>

\* handleActive: its body is empty
handleActive == <<>>

handleSelectEvent(index) ==
  << SetIsLooping(FALSE), SetActiveIndex(index), SetModalEvent(Null) >>

\* handlePrev wrapping to events.length instead of events.length - 1
handlePrev_WrapsPastEnd(len) == << SetIsLooping(FALSE), SetActiveIndexPrev(len + 1) >>

handlePrev(len) == << SetIsLooping(FALSE), SetActiveIndexPrev(len) >>

\* handleNext without its setIsLooping(false)
handleNext_KeepsMode(len) == << SetActiveIndexNext(len) >>

handleNext(len) == << SetIsLooping(FALSE), SetActiveIndexNext(len) >>

\* a card click without the events[activeIndex] guard
handleCardClick_NoGuard(evs, idx) ==
  << SetIsLooping(FALSE), SetModalEvent(At(evs, idx)) >>

handleCardClick(evs, idx) ==
  << SetIsLooping(FALSE) >> \o
  (IF At(evs, idx) # Undefined THEN << SetModalEvent(At(evs, idx)) >> ELSE <<>>)

\* a close handler that also returns to Loop mode
handleModalClose_ResumesLoop == << SetModalEvent(Null), SetIsLooping(TRUE) >>

handleModalClose == << SetModalEvent(Null) >>

\* a keydown listener without the early return on an open overlay
handleKeyDown_NoOverlayGuard(key, len, modal) ==
  (IF key = "ArrowRight" THEN handleNext(len) ELSE <<>>) \o
  (IF key = "ArrowLeft" THEN handlePrev(len) ELSE <<>>)

\* the window keydown listener of App, with the values its closure holds
handleKeyDown(key, len, modal) ==
  IF modal # Null THEN <<>>
  ELSE (IF key = "ArrowRight" THEN handleNext(len) ELSE <<>>) \o
       (IF key = "ArrowLeft" THEN handlePrev(len) ELSE <<>>)

\* the window keydown listener of DetailModal, attached while it is mounted
modalKeyDown(key, modal) ==
  IF modal # Null /\ key = "Escape" THEN handleModalClose ELSE <<>>

\* useAutoplay's first argument
isPlaying(st) == st.isLooping /\ st.modalEvent = Null

\* the dependency values of the passive effects for a committed state
Deps(st) == [playing |-> isPlaying(st), len |-> Len(st.events), modal |-> st.modalEvent]

EffectsDue == Deps(Cur) # eff

----
\* an effect body whose schedule fires as soon as it is started
autoplayBody_FiresAtOnce(a, playing, len) ==
  IF playing
  THEN [ref |-> "live",
        set |-> {[t EXCEPT !.ref = FALSE] : t \in a.set}
                \cup {[rem |-> 0, len |-> len, ref |-> TRUE]}]
  ELSE IF a.ref # "null"
       THEN [ref |-> "null", set |-> {t \in a.set : ~t.ref}]
       ELSE a

\* an effect body whose first period is short of a full one
autoplayBody_ShortFirstPeriod(a, playing, len) ==
  IF playing
  THEN [ref |-> "live",
        set |-> {[t EXCEPT !.ref = FALSE] : t \in a.set}
                \cup {[rem |-> AUTOPLAY_INTERVAL - Quantum, len |-> len, ref |-> TRUE]}]
  ELSE IF a.ref # "null"
       THEN [ref |-> "null", set |-> {t \in a.set : ~t.ref}]
       ELSE a

\* a cleanup that leaves the schedule running
autoplayCleanup_NoClear(a) == a

\* hooks/useAutoplay.js.  a = [ref |-> intervalRef.current, set |-> live schedules]
\* the cleanup of the effect
autoplayCleanup(a) ==
  IF a.ref # "null"
  THEN [ref |-> IF a.ref = "live" THEN "stale" ELSE a.ref,
        set |-> {t \in a.set : ~t.ref}]
  ELSE a

\* the body of the effect
autoplayBody(a, playing, len) ==
  IF playing
  THEN [ref |-> "live",
        set |-> {[t EXCEPT !.ref = FALSE] : t \in a.set}
                \cup {[rem |-> AUTOPLAY_INTERVAL, len |-> len, ref |-> TRUE]}]
  ELSE IF a.ref # "null"
       THEN [ref |-> "null", set |-> {t \in a.set : ~t.ref}]
       ELSE a

\* an effect with deps [isPlaying] only: a new onAdvance does not restart it
useAutoplay_IgnoresLength(a, old, new) ==
  IF old.playing # new.playing
  THEN autoplayBody(autoplayCleanup(a), new.playing, new.len)
  ELSE a

\* an effect that reacts to isPlaying turning true only
useAutoplay_IgnoresStop(a, old, new) ==
  IF new.playing /\ (~old.playing \/ old.len # new.len)
  THEN autoplayBody(autoplayCleanup(a), new.playing, new.len)
  ELSE a

\* the effect runs when one of [isPlaying, onAdvance, interval] changed;
\* onAdvance (advanceToNext) changes with events.length
useAutoplay(a, old, new) ==
  IF old.playing # new.playing \/ old.len # new.len
  THEN autoplayBody(autoplayCleanup(a), new.playing, new.len)
  ELSE a

\* setTimeout(f, d): a delay below zero counts as zero
Delay(d) == IF d < 0 THEN 0 ELSE d

\* a listener that starts a countdown without clearing the pending one
handleActivity_NoClear(t) ==
  [ref |-> "live",
   set |-> {[x EXCEPT !.ref = FALSE] : x \in t.set}
           \cup {[rem |-> Delay(timeout), ref |-> TRUE]}]

\* a listener that calls onActive and leaves the countdown running
handleActivity_KeepsCountdown(t) == t

\* hooks/useInactivity.js.  t = [ref |-> timerRef.current, set |-> countdowns]
handleActivity(t) ==
  LET cleared == IF t.ref # "null" THEN {x \in t.set : ~x.ref} ELSE t.set
  IN [ref |-> "live",
      set |-> {[x EXCEPT !.ref = FALSE] : x \in cleared}
              \cup {[rem |-> Delay(timeout), ref |-> TRUE]}]

\* a cleanup that removes the listeners and leaves the countdown pending
useInactivityCleanup_KeepsTimer(t) ==
  [ref |-> t.ref, set |-> t.set, listening |-> FALSE]

\* the cleanup of the mount effect: removeEventListener for each event, then
\* clearTimeout(timerRef.current) if it is set
useInactivityCleanup(t) ==
  [ref |-> IF t.ref = "live" THEN "stale" ELSE t.ref,
   set |-> IF t.ref # "null" THEN {x \in t.set : ~x.ref} ELSE t.set,
   listening |-> FALSE]

\* a mount effect that uses the default of the timeout parameter
useInactivityMount_DefaultTimeout ==
  [ref |-> "live", set |-> {[rem |-> 12000, ref |-> TRUE]}]

\* a mount effect that starts no countdown
useInactivityMount_NoTimer == [ref |-> "null", set |-> {}]

\* the mount effect of useInactivity: timerRef.current = setTimeout(onIdle, timeout)
useInactivityMount ==
  [ref |-> "live", set |-> {[rem |-> Delay(timeout), ref |-> TRUE]}]

----
\* What is on screen for a committed state: the elements a pointer can reach.
NoTarget == [kind |-> "none", index |-> 0]
T(kind) == [kind |-> kind, index |-> 0]
Dot(i) == [kind |-> "dot", index |-> i]

PointerTargets(st) ==
  IF st.isLoading THEN {T("screen")}
  ELSE IF st.modalEvent # Null
       THEN {T("backdrop"), T("close"), T("panel")}
       ELSE {T("screen"), T("card"), T("prev"), T("next")}
            \cup {Dot(i) : i \in 0..(Len(st.events) - 1)}

\* the elements the keyboard focus can be on (buttons, and dots with tabIndex 0)
FocusTargets(st) ==
  IF st.isLoading THEN {}
  ELSE {T("prev"), T("next")} \cup {Dot(i) : i \in 0..(Len(st.events) - 1)}
       \cup (IF st.modalEvent # Null THEN {T("close")} ELSE {})

\* the onClick (for a dot: onClick and onKeyDown) prop of an element, as rendered
\* for the committed state st
onClick(t, st) ==
  CASE t.kind = "card" -> handleCardClick(st.events, st.activeIndex)
    [] t.kind = "prev" -> handlePrev(Len(st.events))
    [] t.kind = "next" -> handleNext(Len(st.events))
    [] t.kind = "dot" -> handleSelectEvent(t.index)
    [] t.kind \in {"backdrop", "close"} -> handleModalClose
    [] OTHER -> <<>>

Keys == {"ArrowLeft", "ArrowRight", "Escape", "Other"}

\* the coordinator operation behind the handler of an element
opOf(t) ==
  CASE t.kind = "card" -> "openDetail"
    [] t.kind = "prev" -> "prev"
    [] t.kind = "next" -> "next"
    [] t.kind = "dot" -> "selectEvent"
    [] t.kind \in {"backdrop", "close"} -> "closeDetail"
    [] OTHER -> "none"

\* the coordinator operation a key on the window leads to, for the overlay
\* value the listeners hold
keyOp(key, modal) ==
  CASE modal = Null /\ key = "ArrowRight" -> "next"
    [] modal = Null /\ key = "ArrowLeft" -> "prev"
    [] modal # Null /\ key = "Escape" -> "closeDetail"
    [] OTHER -> "onUserActive"

----
Min(a, b) == IF a < b THEN a ELSE b

\* the state after App was constructed with payload d on the server and
\* useInactivity called with timeout tmo
Start(tmo, d) ==
  /\ timeout = tmo
  /\ sinceEnable = 0
  /\ mounted = TRUE
  /\ listening = TRUE
  /\ refetch = "none"
  /\ data = d
  /\ fetchState = "pending"
  /\ events = <<>>
  /\ activeIndex = 0
  /\ isLooping = TRUE
  /\ modalEvent = Null
  /\ isLoading = TRUE
  /\ pending = <<>>
  /\ eff = [playing |-> TRUE, len |-> 0, modal |-> Null]
  /\ intervalRef = "live"
  /\ intervals = {[rem |-> AUTOPLAY_INTERVAL, len |-> 0, ref |-> TRUE]}
  /\ timerRef = useInactivityMount.ref
  /\ timeouts = useInactivityMount.set
  /\ pressed = NoTarget
  /\ sinceInput = 0
  /\ idleCount = 0
  /\ called = "none"
  /\ lastKey = "none"
  /\ sport = ""
  /\ visual = NoVisual

Init == \E d \in SamplePayloads : Start(INACTIVITY_TIMEOUT, d)

\* the history clock of the ticker after its schedules changed from old to new
Enabled(old, new) ==
  IF new = {} THEN AUTOPLAY_INTERVAL
  ELSE IF new # old THEN 0
  ELSE sinceEnable

Commit(st) ==
  /\ events' = st.events
  /\ activeIndex' = st.activeIndex
  /\ isLooping' = st.isLooping
  /\ modalEvent' = st.modalEvent
  /\ isLoading' = st.isLoading

\* the passive effects of a render that committed st
RunEffects(st) ==
  LET a == useAutoplay([ref |-> intervalRef, set |-> intervals], eff, Deps(st))
  IN /\ eff' = Deps(st)
     /\ intervalRef' = a.ref
     /\ intervals' = a.set
     /\ sinceEnable' = Enabled(intervals, a.set)

\* a handler run by a user event: React renders the queue and runs the effects
\* before the event returns; an event whose handlers request nothing renders nothing
UserEvent(ups) ==
  IF ups = <<>>
  THEN UNCHANGED <<react, pending, eff, intervalRef, intervals, sinceEnable>>
  ELSE LET st == ApplyAll(Cur, pending \o ups)
       IN Commit(st) /\ pending' = <<>> /\ RunEffects(st)

\* mousemove, mousedown, touchstart, keydown, wheel: the listener of useInactivity
Qualifying ==
  LET t == handleActivity([ref |-> timerRef, set |-> timeouts])
  IN /\ timerRef' = t.ref
     /\ timeouts' = t.set
     /\ sinceInput' = 0
     /\ idleCount' = 0

----
\* the .then of the data loading effect
fetchResolved(d) == << SetEvents(SortByYear(d)), SetIsLoading(FALSE) >>

\* a .catch that only logs
fetchRejected_KeepsLoading == <<>>

\* the .catch of the data loading effect
fetchRejected == << SetIsLoading(FALSE) >>

\* fetch('/data/timeline.json') resolves and parses
FetchResolve ==
  /\ fetchState = "pending"
  /\ fetchState' = "resolved"
  /\ pending' = pending \o fetchResolved(data)
  /\ UNCHANGED <<data, react, eff, intervalRef, intervals, timerRef, timeouts,
                 pressed, sinceInput, idleCount>>
  /\ called' = "none"
  /\ lastKey' = "none"
  /\ UNCHANGED hooks
  /\ UNCHANGED view
  /\ UNCHANGED sinceEnable

\* the fetch fails, or the payload does not parse
FetchReject ==
  /\ fetchState = "pending"
  /\ fetchState' = "rejected"
  /\ pending' = pending \o fetchRejected
  /\ UNCHANGED <<data, react, eff, intervalRef, intervals, timerRef, timeouts,
                 pressed, sinceInput, idleCount>>
  /\ called' = "none"
  /\ lastKey' = "none"
  /\ UNCHANGED hooks
  /\ UNCHANGED view
  /\ UNCHANGED sinceEnable

\* a setInterval schedule comes due: onAdvance()
IntervalFire ==
  \E t \in intervals :
    /\ t.rem = 0
    /\ intervals' = (intervals \ {t}) \cup {[t EXCEPT !.rem = AUTOPLAY_INTERVAL]}
    /\ pending' = pending \o advanceToNext(t.len)
    /\ UNCHANGED <<data, fetchState, react, eff, intervalRef, timerRef, timeouts,
                   pressed, sinceInput, idleCount>>
    /\ called' = "onAutoplayTick"
    /\ lastKey' = "none"
    /\ UNCHANGED hooks
    /\ UNCHANGED view
    /\ UNCHANGED sinceEnable

\* a setTimeout countdown comes due: onIdle()
TimeoutFire ==
  \E t \in timeouts :
    /\ t.rem = 0
    /\ timeouts' = timeouts \ {t}
    /\ timerRef' = IF t.ref THEN "stale" ELSE timerRef
    /\ pending' = pending \o handleIdle
    /\ idleCount' = Min(idleCount + 1, 2)
    /\ UNCHANGED <<data, fetchState, react, eff, intervalRef, intervals,
                   pressed, sinceInput>>
    /\ called' = "onIdleElapsed"
    /\ lastKey' = "none"
    /\ UNCHANGED hooks
    /\ UNCHANGED view
    /\ UNCHANGED sinceEnable

\* React renders the updates of timer callbacks and of the fetch promise
Render ==
  /\ mounted
  /\ pending # <<>>
  /\ Commit(ApplyAll(Cur, pending))
  /\ pending' = <<>>
  /\ UNCHANGED <<data, fetchState, eff, intervalRef, intervals, timerRef, timeouts,
                 pressed, sinceInput, idleCount>>
  /\ called' = "none"
  /\ lastKey' = "none"
  /\ UNCHANGED hooks
  /\ UNCHANGED view
  /\ UNCHANGED sinceEnable

\* ... and runs the passive effects of that render afterwards
FlushEffects ==
  /\ mounted
  /\ EffectsDue
  /\ RunEffects(Cur)
  /\ UNCHANGED <<data, fetchState, react, pending, timerRef, timeouts,
                 pressed, sinceInput, idleCount>>
  /\ called' = "none"
  /\ lastKey' = "none"
  /\ UNCHANGED hooks
  /\ UNCHANGED view

\* Quantum milliseconds pass; renders, effects and due timers come first
TimePasses ==
  /\ pending = <<>>
  /\ ~EffectsDue
  /\ \A t \in intervals : t.rem > 0
  /\ \A t \in timeouts : t.rem > 0
  /\ intervals' = {[t EXCEPT !.rem = @ - Quantum] : t \in intervals}
  /\ timeouts' = {[t EXCEPT !.rem = @ - Quantum] : t \in timeouts}
  /\ sinceInput' = Min(sinceInput + Quantum, ClockCap)
  /\ sinceEnable' = Min(sinceEnable + Quantum, AUTOPLAY_INTERVAL)
  /\ UNCHANGED <<data, fetchState, react, pending, eff, intervalRef, timerRef,
                 pressed, idleCount>>
  /\ called' = "none"
  /\ lastKey' = "none"
  /\ UNCHANGED hooks
  /\ UNCHANGED view

\* mousedown / touchstart on an element
PointerDown ==
  \E t \in PointerTargets(Cur) :
    /\ listening
    /\ pressed' = t
    /\ Qualifying
    /\ UserEvent(handleActive)
    /\ UNCHANGED <<data, fetchState>>
    /\ called' = "onUserActive"
    /\ lastKey' = "none"
    /\ UNCHANGED hooks
    /\ UNCHANGED view

\* the press is released on the same element, which is still on screen: click
Click ==
  /\ mounted
  /\ pressed \in PointerTargets(Cur)
  /\ pressed' = NoTarget
  /\ UserEvent(onClick(pressed, Cur))
  /\ UNCHANGED <<data, fetchState, timerRef, timeouts, sinceInput, idleCount>>
  /\ called' = opOf(pressed)
  /\ lastKey' = "none"
  /\ UNCHANGED hooks
  /\ UNCHANGED view

\* the press ends without a click (released elsewhere, or the element is gone)
Release ==
  /\ pressed # NoTarget
  /\ pressed' = NoTarget
  /\ UNCHANGED <<data, fetchState, react, pending, eff, intervalRef, intervals,
                 timerRef, timeouts, sinceInput, idleCount>>
  /\ called' = "none"
  /\ lastKey' = "none"
  /\ UNCHANGED hooks
  /\ UNCHANGED view
  /\ UNCHANGED sinceEnable

\* mousemove or wheel
Activity ==
  /\ listening
  /\ Qualifying
  /\ UserEvent(handleActive)
  /\ UNCHANGED <<data, fetchState, pressed>>
  /\ called' = "onUserActive"
  /\ lastKey' = "none"
  /\ UNCHANGED hooks
  /\ UNCHANGED view

\* keydown on the window: useInactivity, App and DetailModal listen
KeyDownOn(key) ==
  /\ listening
  /\ Qualifying
  /\ UserEvent(handleActive \o handleKeyDown(key, eff.len, eff.modal)
                 \o modalKeyDown(key, eff.modal))
  /\ UNCHANGED <<data, fetchState, pressed>>
  /\ called' = keyOp(key, eff.modal)
  /\ lastKey' = key
  /\ UNCHANGED hooks
  /\ UNCHANGED view

KeyDown == \E key \in Keys : KeyDownOn(key)

\* Enter on the focused button or dot: its handler runs, then the window listeners
KeyActivateOn(t) ==
  /\ listening
  /\ Qualifying
  /\ UserEvent(onClick(t, Cur) \o handleActive)
  /\ UNCHANGED <<data, fetchState, pressed>>
  /\ called' = opOf(t)
  /\ lastKey' = "Enter"
  /\ UNCHANGED hooks
  /\ UNCHANGED view

KeyActivate == \E t \in FocusTargets(Cur) : KeyActivateOn(t)

Next ==
  \/ FetchResolve
  \/ FetchReject
  \/ IntervalFire
  \/ TimeoutFire
  \/ Render
  \/ FlushEffects
  \/ TimePasses
  \/ PointerDown
  \/ Click
  \/ Release
  \/ Activity
  \/ KeyDown
  \/ KeyActivate

Spec == Init /\ [][Next]_vars

----
(***************************************************************************)
(* Teardown and setup of the effects.  index.js renders App in             *)
(* React.StrictMode, which in a development build runs the cleanup of      *)
(* every effect and then the effects again, with the state and the refs    *)
(* kept.  Here the cleanup can come at any time and the second setup any   *)
(* time after it.                                                          *)
(***************************************************************************)
\* the cleanups of useAutoplay, useInactivity and the keydown effects
Unmount ==
  /\ mounted
  /\ mounted' = FALSE
  /\ LET a == autoplayCleanup([ref |-> intervalRef, set |-> intervals])
         t == useInactivityCleanup([ref |-> timerRef, set |-> timeouts])
     IN /\ intervalRef' = a.ref
        /\ intervals' = a.set
        /\ sinceEnable' = Enabled(intervals, a.set)
        /\ timerRef' = t.ref
        /\ timeouts' = t.set
        /\ listening' = t.listening
  /\ UNCHANGED <<data, fetchState, react, pending, eff, pressed, sinceInput,
                 idleCount, timeout, refetch, view>>
  /\ called' = "none"
  /\ lastKey' = "none"

\* the effects run a second time: fetch, useAutoplay, useInactivity, keydown
Remount ==
  /\ ~mounted
  /\ refetch = "none"
  /\ mounted' = TRUE
  /\ refetch' = "pending"
  /\ LET a == autoplayBody([ref |-> intervalRef, set |-> intervals],
                           isPlaying(Cur), Len(events))
     IN /\ intervalRef' = a.ref
        /\ intervals' = a.set
        /\ sinceEnable' = Enabled(intervals, a.set)
  /\ eff' = Deps(Cur)
  /\ timerRef' = useInactivityMount.ref
  /\ timeouts' = {[x EXCEPT !.ref = FALSE] : x \in timeouts} \cup useInactivityMount.set
  /\ listening' = TRUE
  /\ sinceInput' = 0
  /\ idleCount' = 0
  /\ UNCHANGED <<data, fetchState, react, pending, pressed, timeout, view>>
  /\ called' = "none"
  /\ lastKey' = "none"

\* the request of the second run resolves and parses
RefetchResolve ==
  /\ refetch = "pending"
  /\ refetch' = "resolved"
  /\ pending' = pending \o fetchResolved(data)
  /\ UNCHANGED <<data, fetchState, react, eff, intervalRef, intervals, timerRef,
                 timeouts, pressed, sinceInput, idleCount, timeout, mounted, listening,
                 view>>
  /\ called' = "none"
  /\ lastKey' = "none"
  /\ UNCHANGED sinceEnable

\* the request of the second run fails
RefetchReject ==
  /\ refetch = "pending"
  /\ refetch' = "rejected"
  /\ pending' = pending \o fetchRejected
  /\ UNCHANGED <<data, fetchState, react, eff, intervalRef, intervals, timerRef,
                 timeouts, pressed, sinceInput, idleCount, timeout, mounted, listening,
                 view>>
  /\ called' = "none"
  /\ lastKey' = "none"
  /\ UNCHANGED sinceEnable

\* the payloads of the teardown model
LifePayloads == {p \in SamplePayloads : Len(p) = 1}

InitLife == \E d \in LifePayloads : Start(INACTIVITY_TIMEOUT, d)

NextLife ==
  \/ Unmount
  \/ Remount
  \/ RefetchResolve
  \/ RefetchReject
  \/ FetchResolve
  \/ FetchReject
  \/ IntervalFire
  \/ TimeoutFire
  \/ Render
  \/ FlushEffects
  \/ TimePasses
  \/ PointerDown
  \/ Click
  \/ Release
  \/ Activity
  \/ KeyDown
  \/ KeyActivate

SpecLife == InitLife /\ [][NextLife]_vars

----
\* A session that never receives input, for any timeout argument of the hook.
TimeoutArgs == {-Quantum, 0, Quantum, INACTIVITY_TIMEOUT}

InitIdle == \E tmo \in TimeoutArgs, d \in SamplePayloads : Start(tmo, d)

NextIdle ==
  \/ FetchResolve
  \/ FetchReject
  \/ IntervalFire
  \/ TimeoutFire
  \/ Render
  \/ FlushEffects
  \/ TimePasses

SpecIdle == InitIdle /\ [][NextIdle]_vars

----
(***************************************************************************)
(* The operations of the coordinator called directly, one at a time and    *)
(* rendered at once, with any argument a caller can pass: the contract of  *)
(* each handler, apart from the screen that calls it.                      *)
(***************************************************************************)
Call(ups) ==
  LET st == ApplyAll(Cur, ups)
  IN /\ Commit(st)
     /\ RunEffects(st)
     /\ UNCHANGED <<data, pending, timerRef, timeouts, pressed, sinceInput, idleCount>>

ApiLoad ==
  /\ fetchState = "pending"
  /\ fetchState' = "resolved"
  /\ Call(fetchResolved(data))
  /\ called' = "load"
  /\ lastKey' = "none"
  /\ UNCHANGED hooks
  /\ UNCHANGED view

ApiLoadFails ==
  /\ fetchState = "pending"
  /\ fetchState' = "rejected"
  /\ Call(fetchRejected)
  /\ called' = "loadFails"
  /\ lastKey' = "none"
  /\ UNCHANGED hooks
  /\ UNCHANGED view

ApiSelectEvent(index) ==
  /\ Call(handleSelectEvent(index))
  /\ called' = "selectEvent"
  /\ lastKey' = "none"
  /\ UNCHANGED hooks
  /\ UNCHANGED view
  /\ UNCHANGED fetchState

ApiSelect == \E index \in -1..MaxEvents : ApiSelectEvent(index)

ApiPrev ==
  /\ Call(handlePrev(Len(events)))
  /\ called' = "prev"
  /\ lastKey' = "none"
  /\ UNCHANGED hooks
  /\ UNCHANGED view
  /\ UNCHANGED fetchState

ApiNext ==
  /\ Call(handleNext(Len(events)))
  /\ called' = "next"
  /\ lastKey' = "none"
  /\ UNCHANGED hooks
  /\ UNCHANGED view
  /\ UNCHANGED fetchState

ApiOpenDetail ==
  /\ Call(handleCardClick(events, activeIndex))
  /\ called' = "openDetail"
  /\ lastKey' = "none"
  /\ UNCHANGED hooks
  /\ UNCHANGED view
  /\ UNCHANGED fetchState

ApiCloseDetail ==
  /\ Call(handleModalClose)
  /\ called' = "closeDetail"
  /\ lastKey' = "none"
  /\ UNCHANGED hooks
  /\ UNCHANGED view
  /\ UNCHANGED fetchState

ApiAutoplayTick ==
  /\ isPlaying(Cur)
  /\ Call(advanceToNext(Len(events)))
  /\ called' = "onAutoplayTick"
  /\ lastKey' = "none"
  /\ UNCHANGED hooks
  /\ UNCHANGED view
  /\ UNCHANGED fetchState

ApiIdleElapsed ==
  /\ Call(handleIdle)
  /\ called' = "onIdleElapsed"
  /\ lastKey' = "none"
  /\ UNCHANGED hooks
  /\ UNCHANGED view
  /\ UNCHANGED fetchState

NextApi ==
  \/ ApiLoad
  \/ ApiLoadFails
  \/ ApiSelect
  \/ ApiPrev
  \/ ApiNext
  \/ ApiOpenDetail
  \/ ApiCloseDetail
  \/ ApiAutoplayTick
  \/ ApiIdleElapsed

SpecApi == Init /\ [][NextApi]_vars

\* The data loading effect on every payload of the bound: the handlers called
\* directly, from any payload.
InitSort == \E d \in Payloads : Start(INACTIVITY_TIMEOUT, d)

SpecSort == InitSort /\ [][NextApi]_vars

----
\* The dots and cards are drawn: each calls getSportConfig(event.sport) with
\* whatever key the event data carries.
DrawSport ==
  /\ \E key \in SportKeys :
       /\ sport' = key
       /\ visual' = getSportConfig(key)
  /\ UNCHANGED <<data, fetchState, react, pending, eff, intervalRef, intervals,
                 timerRef, timeouts, pressed, sinceInput, idleCount, called,
                 lastKey, sinceEnable>>
  /\ UNCHANGED hooks

InitView == \E d \in SamplePayloads : Start(INACTIVITY_TIMEOUT, d)

SpecView == InitView /\ [][DrawSport]_vars

----
InRange(i, evs) == i >= 0 /\ i <= Len(evs) - 1

\* C1: whenever the catalog is non-empty, 0 <= activeIndex <= catalog.length - 1,
\* whatever happened before the catalog finished loading.
C1_ActiveIndexInRange == Len(events) > 0 => InRange(activeIndex, events)

\* C2: Loop mode implies that the overlay is closed.
C2_LoopImpliesNoDetail == isLooping => modalEvent = Null

\* a Loop state that the idle timer just forced: the effects of the render
\* that closed the overlay have not run yet
C2_Witness == isLooping /\ modalEvent = Null /\ eff.modal # Null /\ idleCount = 1

\* C3: once the ticker has reacted to the committed state, it has a live
\* schedule exactly when mode is Loop and the overlay is closed.
C3_AutoplayIffLoopNoDetail ==
  ~EffectsDue => ((intervals # {}) <=> (isLooping /\ modalEvent = Null))

\* the overlay is open, the ticker has reacted, and nothing is scheduled
C3_Witness == ~EffectsDue /\ modalEvent # Null /\ intervals = {} /\ Len(events) > 0

\* C4: on an empty catalog, prev, next, selectEvent and openDetail (by pointer
\* or by key) leave activeIndex, mode and detailEvent unchanged.
C4_EmptyCatalogNoOp ==
  [][(Len(events) = 0 /\ pending = <<>> /\ (Click \/ KeyDown \/ KeyActivate))
       => UNCHANGED <<activeIndex, isLooping, modalEvent>>]_vars

\* C5: selectEvent(index) with an index out of range leaves activeIndex within
\* [0, catalog.length - 1].
C5_SelectOutOfRangeRejected ==
  [][\A index \in -1..MaxEvents :
       (/\ Len(events) > 0
        /\ InRange(activeIndex, events)
        /\ ~InRange(index, events)
        /\ ApiSelectEvent(index))
       => InRange(activeIndex', events')]_vars

\* C6 as stated: with no qualifying input, onIdle has fired twice once more
\* than twice the timeout has passed.
C6_IdleRearms == sinceInput > 2 * INACTIVITY_TIMEOUT => idleCount >= 2

\* C6 as amended: the countdown is one-shot.  With no qualifying input, onIdle
\* fires once when the timeout has passed, not before, and not again.
C6_IdleFiresOnce ==
  /\ sinceInput < INACTIVITY_TIMEOUT => idleCount = 0
  /\ sinceInput > INACTIVITY_TIMEOUT => idleCount = 1

\* two timeouts and more have passed without input, and onIdle fired once
C6_Witness ==
  sinceInput > 2 * INACTIVITY_TIMEOUT /\ idleCount = 1 /\ timeouts = {}

\* C7: once more than the idle timeout has passed since the last qualifying
\* input (and React has rendered), the display is in Loop mode, overlay closed.
C7_IdleReturnsToLoop ==
  (sinceInput > INACTIVITY_TIMEOUT /\ pending = <<>>)
    => (isLooping /\ modalEvent = Null)

\* C8: the ticker's callback never runs while autoplay is disabled, neither in
\* the committed state nor in the state the queued updates lead to: a tick
\* that is due when a user event disables autoplay is cleared with it.
C8_NoTickWhileDisabled ==
  [][IntervalFire => (isPlaying(Cur) /\ isPlaying(ApplyAll(Cur, pending)))]_vars

\* a tick is due at the moment a press on the card is about to be released
C8_Witness ==
  /\ isLooping /\ ~isLoading /\ Len(events) > 0
  /\ pressed.kind = "card"
  /\ \E t \in intervals : t.rem = 0

\* C9: no operation acts on a stale activeIndex or catalog: the record that
\* openDetail stores is the one the latest requested state designates.
C9_NoStaleRead ==
  [][(Click /\ pressed.kind = "card")
       => At(events, activeIndex)
            = At(ApplyAll(Cur, pending).events, ApplyAll(Cur, pending).activeIndex)]_vars

\* C10: when the catalog finishes loading, activeIndex = 0, mode = Loop and
\* the overlay is closed.
C10_InitialStateAtLoad ==
  [][(isLoading /\ ~isLoading')
       => (activeIndex' = 0 /\ isLooping' /\ modalEvent' = Null)]_vars

----
\* the ticker is off: autoplay is disabled and no schedule is live
AutoplayOff == ~isPlaying(Cur) /\ intervals = {}

NavOps == {"selectEvent", "prev", "next", "openDetail"}

\* C12: on a non-empty catalog, selectEvent, prev, next and openDetail, by
\* pointer or by key and from any state, leave mode = Interactive.
C12_NavigationSetsInteractive ==
  [][(Len(events) > 0 /\ (Click \/ KeyDown \/ KeyActivate) /\ called' \in NavOps)
       => ~isLooping']_vars

\* next was just invoked while the overlay was open (Interactive-Detail)
C12_Witness ==
  called = "next" /\ ~isLooping /\ modalEvent # Null /\ Len(events) > 0

\* the state the committed state and the queued updates lead to
Requested == ApplyAll(Cur, pending)

\* C13: when the idle countdown fires, whatever the state (Loop, browsing,
\* overlay open, updates queued), the state requested is mode = Loop with no
\* overlay and the same activeIndex as before, and autoplay is enabled in it.
C13_IdleElapsed ==
  [][TimeoutFire
       => /\ Requested'.isLooping
          /\ Requested'.modalEvent = Null
          /\ Requested'.activeIndex = Requested.activeIndex
          /\ isPlaying(Requested')]_vars

\* onIdle was just called while the overlay is open on a record other than
\* the first
C13_Witness ==
  /\ called = "onIdleElapsed" /\ ~isLooping /\ modalEvent # Null /\ activeIndex > 0
  /\ pending = handleIdle

\* C14: on a non-empty catalog, a click on the card stores exactly
\* catalog[activeIndex], for the activeIndex on screen when it is clicked, as
\* the overlay's record, and leaves activeIndex unchanged.
C14_OpenDetail ==
  [][(Click /\ pressed.kind = "card" /\ Len(events) > 0)
       => (modalEvent' = At(events, activeIndex) /\ activeIndex' = activeIndex)]_vars

\* the same with activeIndex in range and no update queued
OpenDetail_InRangeNoQueue ==
  [][(Click /\ pressed.kind = "card" /\ Len(events) > 0
        /\ InRange(activeIndex, events) /\ pending = <<>>)
       => (modalEvent' = At(events, activeIndex) /\ activeIndex' = activeIndex)]_vars

\* C15: on a non-empty catalog with activeIndex in range, prev() after a next()
\* leads back to the activeIndex before the next(), and next() after a prev()
\* to the one before the prev(), wrapping at both ends.
C15_NextPrevRing ==
  [][(Len(events) > 0 /\ InRange(activeIndex, events))
       => /\ ApiNext => ApplyAll(Cur', handlePrev(Len(events'))).activeIndex = activeIndex
          /\ ApiPrev => ApplyAll(Cur', handleNext(Len(events'))).activeIndex = activeIndex]_vars

\* prev() just wrapped from the first record to the last of three
C15_Witness ==
  called = "prev" /\ Len(events) = 3 /\ activeIndex = 2 /\ modalEvent # Null

\* next() was just called on a catalog of one record
NextOnSingleRecord == called = "next" /\ Len(events) = 1 /\ activeIndex = 0

\* the state after k calls of advanceToNext on the catalog of st
RECURSIVE AfterTicks(_, _)
AfterTicks(st, k) ==
  IF k = 0 THEN st
  ELSE AfterTicks(ApplyAll(st, advanceToNext(Len(st.events))), k - 1)

\* the first n ticks from st visit each index of the catalog once and end on
\* the activeIndex of st
TickCycle(st) ==
  LET n == Len(st.events)
      visit == [k \in 1..n |-> AfterTicks(st, k).activeIndex]
  IN /\ \A i \in 0..(n - 1) : Cardinality({k \in 1..n : visit[k] = i}) = 1
     /\ visit[n] = st.activeIndex

\* C16: whenever autoplay is enabled on a catalog of n >= 1 records, whatever
\* activeIndex is, the next n ticks visit every index exactly once and return
\* to the starting index.
C16_TickCycle == (Len(events) >= 1 /\ isPlaying(Cur)) => TickCycle(Cur)

\* the same for a starting activeIndex within the catalog
TickCycle_InRange ==
  (Len(events) >= 1 /\ InRange(activeIndex, events)) => TickCycle(Cur)

\* with three records, from index 0, two ticks lead to 2 and the third to 0
TickCycle_Example ==
  (Len(events) = 3 /\ activeIndex = 0)
    => (AfterTicks(Cur, 2).activeIndex = 2 /\ AfterTicks(Cur, 3).activeIndex = 0)

\* C17: closing the overlay (backdrop, close button, Escape) leaves no overlay
\* and leaves mode and activeIndex as they were requested before it: unless
\* the idle timer had already asked for Loop mode, the display stays
\* Interactive with autoplay off.
C17_CloseDetail ==
  [][((Click \/ KeyDown \/ KeyActivate) /\ called' = "closeDetail")
       => /\ modalEvent' = Null
          /\ isLooping' = Requested.isLooping
          /\ activeIndex' = Requested.activeIndex
          /\ ~Requested.isLooping => AutoplayOff']_vars

\* the overlay was just closed on a record other than the first: the display
\* is Interactive with nothing scheduled
C17_Witness ==
  /\ called = "closeDetail" /\ modalEvent = Null /\ ~isLooping /\ activeIndex > 0
  /\ intervals = {}

\* C18: a tick of the ticker requests a change of activeIndex only: mode, the
\* overlay, the catalog and the loading flag are requested as before.
C18_TickChangesOnlyIndex ==
  [][IntervalFire
       => /\ Requested'.isLooping = Requested.isLooping
          /\ Requested'.modalEvent = Requested.modalEvent
          /\ Requested'.events = Requested.events
          /\ Requested'.isLoading = Requested.isLoading]_vars

\* a tick was just called on the last of three records: it wraps to the first
C18_Witness ==
  /\ called = "onAutoplayTick" /\ Len(events) = 3 /\ activeIndex = 2
  /\ Requested.activeIndex = 0 /\ isLooping

C20_OverlayKeys ==
  [][modalEvent # Null
       => /\ KeyDownOn("Escape") => (called' = "closeDetail" /\ modalEvent' = Null)
          /\ \A key \in {"ArrowLeft", "ArrowRight"} :
               KeyDownOn(key) => UNCHANGED <<activeIndex, isLooping, modalEvent>>]_vars

\* an arrow key was just pressed and the overlay is still open
C20_Witness ==
  lastKey \in {"ArrowLeft", "ArrowRight"} /\ modalEvent # Null /\ Len(events) > 1

\* Escape was just pressed and closed the overlay
EscapeClosed == lastKey = "Escape" /\ called = "closeDetail" /\ modalEvent = Null

\* a key requests what an operation called with the catalog on screen would
KeyActsAs(key, ups) == KeyDownOn(key) => Requested' = ApplyAll(Requested, ups)

\* C21: while no overlay is open and the catalog is loaded, ArrowLeft has
\* exactly the effect of prev(), ArrowRight exactly that of next(), and Escape
\* leaves the playback state as requested.
C21_ArrowKeys ==
  [][(modalEvent = Null /\ ~isLoading)
       => /\ KeyActsAs("ArrowLeft", handlePrev(Len(events)))
          /\ KeyActsAs("ArrowRight", handleNext(Len(events)))
          /\ KeyActsAs("Escape", <<>>)]_vars

\* the same once the effects of the last render have run, that is, once the
\* listener registered is the one of the state on screen
ArrowKeys_EffectsRun ==
  [][(modalEvent = Null /\ ~isLoading /\ ~EffectsDue)
       => /\ KeyActsAs("ArrowLeft", handlePrev(Len(events)))
          /\ KeyActsAs("ArrowRight", handleNext(Len(events)))
          /\ KeyActsAs("Escape", <<>>)]_vars

\* C22: a step that delivers a qualifying input leaves one countdown, of the
\* full timeout; so no countdown comes due, and onIdle has not fired, less than
\* the timeout after the most recent qualifying input.
C22_InputRestartsCountdown ==
  /\ (called = "onUserActive" \/ lastKey # "none")
       => (timeouts = {[rem |-> INACTIVITY_TIMEOUT, ref |-> TRUE]} /\ sinceInput = 0)
  /\ \A t \in timeouts : t.rem + sinceInput >= INACTIVITY_TIMEOUT
  /\ idleCount > 0 => sinceInput >= INACTIVITY_TIMEOUT

\* a key was just pressed in Loop mode, half a second before a tick is due:
\* the countdown is whole again
C22_Witness ==
  /\ lastKey = "Other" /\ isLooping /\ ~isLoading
  /\ timeouts = {[rem |-> INACTIVITY_TIMEOUT, ref |-> TRUE]}
  /\ \E t \in intervals : t.rem = Quantum

\* C23: in a session without input, for a positive timeout, the countdown that
\* construction started is running until the timeout has passed, and onIdle has
\* fired exactly once, with nothing pending, after it.
C23_CountdownFromConstruction ==
  timeout > 0
    => /\ sinceInput < timeout
            => (idleCount = 0 /\ timeouts = {[rem |-> timeout - sinceInput, ref |-> TRUE]})
       /\ sinceInput = timeout => idleCount <= 1
       /\ sinceInput > timeout => (idleCount = 1 /\ timeouts = {})

\* onIdle was just called, 14 s after construction
C23_Witness ==
  /\ called = "onIdleElapsed" /\ timeout = INACTIVITY_TIMEOUT
  /\ sinceInput = INACTIVITY_TIMEOUT /\ idleCount = 1

\* C25: when useInactivity is called with timeout <= 0, no countdown is started
\* and onIdle never fires.
C25_NonPositiveTimeoutRejected == timeout <= 0 => (timeouts = {} /\ idleCount = 0)

\* the callbacks of the two hooks
HookCallbacks == {"onIdleElapsed", "onUserActive", "onAutoplayTick"}

\* C24: between the cleanup of the effects and their next setup no step
\* invokes onIdle, onActive or onAdvance and no key reaches a listener; and
\* every countdown and schedule that exists belongs to the latest setup.
C24_NoCallbackAfterTeardown ==
  [][/\ ~mounted => (called' \notin HookCallbacks /\ lastKey' = "none")
     /\ \A t \in timeouts' : t.ref
     /\ \A t \in intervals' : t.ref]_vars

\* torn down for longer than the idle timeout, in Loop mode: nothing is
\* scheduled and nothing has fired
C24_Witness ==
  /\ ~mounted /\ ~listening /\ isLooping /\ sinceInput > INACTIVITY_TIMEOUT
  /\ idleCount = 0 /\ timeouts = {} /\ intervals = {}

\* set up again after a teardown, with a tick of the second setup just called
TickAfterRemount == mounted /\ refetch # "none" /\ called = "onAutoplayTick"

\* C26: onAdvance is never invoked less than one full period after the
\* schedule it belongs to was started: not by the step that enables the
\* ticker, and not before the period has passed.
C26_NoTickOnEnable == called = "onAutoplayTick" => sinceEnable >= AUTOPLAY_INTERVAL

\* a tick exactly one period after the idle timer re-enabled autoplay
C26_Witness ==
  /\ called = "onAutoplayTick" /\ idleCount = 1
  /\ sinceInput = INACTIVITY_TIMEOUT + AUTOPLAY_INTERVAL

\* C27: while the ticker is disabled nothing is scheduled, and from a
\* (re-)enable on the schedule counts down from a full period, so that its
\* first tick comes exactly one period after the enable, whatever time had
\* passed before the disable.
C27_ReenableStartsFullPeriod ==
  /\ ~eff.playing => intervals = {}
  /\ \A t \in intervals :
       sinceEnable < AUTOPLAY_INTERVAL => t.rem = AUTOPLAY_INTERVAL - sinceEnable

\* half a second after the idle timer returned the display to Loop mode: the
\* schedule started then and has a full period less that half second to run
C27_Witness ==
  /\ idleCount = 1 /\ sinceInput = INACTIVITY_TIMEOUT + Quantum /\ isLooping
  /\ sinceEnable = Quantum
  /\ \E t \in intervals : t.rem = AUTOPLAY_INTERVAL - Quantum

\* C28: at every moment at most one idle countdown is pending and at most one
\* schedule of the ticker is live, through inputs, renders, enable/disable
\* flips and the teardown and second setup of the effects.
C28_NeverStacks == Cardinality(timeouts) <= 1 /\ Cardinality(intervals) <= 1

\* after the second setup and a key press in Loop mode: one of each
C28_Witness ==
  /\ mounted /\ refetch = "resolved" /\ lastKey = "Other" /\ isLooping
  /\ Cardinality(timeouts) = 1 /\ Cardinality(intervals) = 1
  /\ \E t \in intervals : t.rem < AUTOPLAY_INTERVAL

\* the place of a record in a payload (records are distinct)
Pos(d, e) == CHOOSE k \in 1..Len(d) : d[k] = e

\* s holds the records of d, each once, by non-decreasing year, records of
\* the same year in the order they have in d
IsStableSortOf(s, d) ==
  /\ Len(s) = Len(d)
  /\ {s[i] : i \in 1..Len(s)} = {d[i] : i \in 1..Len(d)}
  /\ \A i, j \in 1..Len(s) :
       i < j => /\ s[i].year <= s[j].year
                /\ s[i].year = s[j].year => Pos(d, s[i]) < Pos(d, s[j])

\* C29: after a successful load the catalog holds the fetched records, each
\* once and unaltered, by non-decreasing year, and records of the same year
\* keep the order they had in the payload.
C29_StableSort == fetchState = "resolved" => IsStableSortOf(events, data)

\* a payload whose first record is the latest and whose other two share a
\* year was just loaded
C29_Witness ==
  /\ called = "load" /\ Len(data) = 3
  /\ data[1].year > data[2].year /\ data[2].year = data[3].year
  /\ events = << data[2], data[3], data[1] >>

\* C30: a failed load only requests the end of the loading state: the catalog
\* and the playback state are requested as they were; afterwards the request
\* stays failed (nothing fetches again), the catalog stays empty, and the
\* loading screen is gone once React has rendered.
C30_LoadFailure ==
  [][/\ FetchReject => Requested' = [Requested EXCEPT !.isLoading = FALSE]
     /\ fetchState = "rejected"
          => /\ fetchState' = "rejected"
             /\ Requested'.events = <<>>
             /\ pending' = <<>> => ~isLoading']_vars

\* long after the load of a non-empty payload failed: no loading screen, an
\* empty catalog, Loop mode
FailedLoadRendered ==
  /\ fetchState = "rejected" /\ Len(data) > 0 /\ events = <<>> /\ ~isLoading
  /\ isLooping /\ activeIndex = 0 /\ modalEvent = Null
  /\ sinceInput > INACTIVITY_TIMEOUT

\* the failed load of a single mount is final (holds in Spec, where the data
\* loading effect runs once)
LoadFailure_SingleMount == refetch = "none" => (fetchState = "rejected" => events = <<>>)

\* C31: the session issues exactly one request for the event collection (the
\* data loading effect never runs a second time), and at most one request
\* sets the catalog.
C31_OneFetch ==
  /\ refetch = "none"
  /\ ~(fetchState = "resolved" /\ refetch = "resolved")

\* both requests of a development build have resolved and set the catalog
TwoLoads ==
  /\ fetchState = "resolved" /\ refetch = "resolved"
  /\ pending = <<>> /\ events = SortByYear(data)

\* C32: when the idle countdown fires while the requested state is already
\* Loop mode with no overlay, the requested state is what it was and the
\* schedule is untouched; the render of those updates leaves no effect due, so
\* the schedule (and the time left to its next tick) stays as it is.
C32_IdleIdempotent ==
  [][/\ (TimeoutFire /\ isPlaying(Requested))
          => /\ Requested' = Requested
             /\ intervals' = intervals /\ intervalRef' = intervalRef
             /\ sinceEnable' = sinceEnable
     /\ (Render /\ Deps(Requested) = eff)
          => /\ ~EffectsDue'
             /\ intervals' = intervals /\ intervalRef' = intervalRef]_vars

\* onIdle was just called in Loop mode with no overlay, on a loaded catalog,
\* in the middle of a period of the schedule
C32_Witness ==
  /\ called = "onIdleElapsed" /\ isLooping /\ modalEvent = Null /\ ~isLoading
  /\ Len(events) > 1 /\ activeIndex > 0
  /\ pending = handleIdle /\ ~EffectsDue
  /\ \E t \in intervals : t.ref /\ 0 < t.rem /\ t.rem < AUTOPLAY_INTERVAL

\* C33: a key that is not a configured sport gets the default visual, a
\* configured sport gets its own entry.
C33_SportVisual ==
  sport # ""
    => visual = IF sport \in ConfiguredSports THEN SPORT_CONFIG[sport]
                ELSE DEFAULT_SPORT_CONFIG

\* ... which holds for the keys that are not property names of Object.prototype
SportVisual_OwnKeys == sport \notin ObjectPrototype => C33_SportVisual

\* an unconfigured sport was looked up and got the trophy
DefaultVisualDrawn == sport = "Swimming" /\ visual = DEFAULT_SPORT_CONFIG

\* C34: while the overlay is open it shows the active event: modalEvent is
\* events[activeIndex].
C34_OverlayShowsActive == modalEvent # Null => modalEvent = At(events, activeIndex)

\* C35: whenever the state requested is Interactive (isLooping false), a
\* countdown of the idle timer is pending.
C35_InteractiveHasCountdown == ~Requested.isLooping => timeouts # {}

\* a record of the catalog evs
IsRecordOf(e, evs) == \E i \in 1..Len(evs) : evs[i] = e

\* C36: modalEvent, committed or requested, is null or a record of the
\* catalog, never undefined; a card click while events[activeIndex] does not
\* exist (empty catalog, index out of range) leaves the overlay closed.
C36_DetailIsCatalogRecord ==
  /\ modalEvent = Null \/ IsRecordOf(modalEvent, events)
  /\ Requested.modalEvent = Null \/ IsRecordOf(Requested.modalEvent, Requested.events)
  /\ (called = "openDetail" /\ At(events, activeIndex) = Undefined) => modalEvent = Null

\* the card was clicked on a loaded catalog with activeIndex out of range
C36_Witness ==
  /\ called = "openDetail" /\ ~isLoading /\ events # <<>>
  /\ At(events, activeIndex) = Undefined
  /\ modalEvent = Null /\ ~isLooping

\* the card was clicked on an empty catalog
CardClickOnEmptyCatalog ==
  called = "openDetail" /\ ~isLoading /\ events = <<>> /\ modalEvent = Null

\* the one live schedule, started now and bound to the length len
Restarted(len) == {[rem |-> AUTOPLAY_INTERVAL, len |-> len, ref |-> TRUE]}

TickBeforeRestart ==
  /\ called = "onAutoplayTick" /\ ~isLoading /\ Len(events) > 1 /\ EffectsDue
  /\ Requested.activeIndex = 0

\* a position between 0% and 100%
IsPercentage(p) ==
  /\ p.kind = "number"
  /\ IF p.den > 0 THEN 0 <= p.num /\ p.num <= 100 * p.den
      ELSE 0 >= p.num /\ p.num >= 100 * p.den

\* C38: once a non-empty catalog is loaded, the ruler position of every
\* event is a number between 0% and 100%.
C38_RulerPositions ==
  (~isLoading /\ events # <<>>)
    => \A i \in 1..Len(events) : IsPercentage(yearToPercent(events[i].year, events))

\* ... which holds for a catalog whose first and last year differ
RulerPositions_SeveralYears ==
  (~isLoading /\ events # <<>> /\ events[1].year # events[Len(events)].year)
    => \A i \in 1..Len(events) : IsPercentage(yearToPercent(events[i].year, events))

\* a loaded catalog of three events over two years, the middle one at 0% or 100%
RulerWithThreeEvents ==
  /\ ~isLoading /\ Len(events) = 3 /\ events[1].year # events[3].year
  /\ yearToPercent(events[2].year, events).num \in {0, 100 * yearSpan(events)}

====
